---- MODULE Spec2Model ----
(***************************************************************************)
(* Model of the SVG annotation transfer utilities (src/__init__.py).       *)
(*                                                                         *)
(* A document text is a sequence of lexical tokens.  Every token stands    *)
(* for one fixed character string:                                         *)
(*    open   <name a="v" ...>        self   <name a="v" .../>              *)
(*    close  </name>                 nl     one "\n"       sp   one " "    *)
(* Tag names and identifiers are tuples of characters, so that the         *)
(* character classes and prefixes the code tests are computed, not         *)
(* assumed.  A position is the index of a token (1-based); the code's      *)
(* character offsets are a strictly increasing function of it, and the     *)
(* code's -1 / None is position 0 / found = FALSE.                         *)
(* An attribute value is form "plain" (text ref), "url" (text url(#ref))   *)
(* or "hash" (text #ref).  The documents drawn carry the text id="..."     *)
(* only as the id attribute of a tag, and no ">" inside attribute values.  *)
(***************************************************************************)
EXTENDS Integers, Sequences, FiniteSets, TLC

VARIABLES
    src_file,      \* content of the source path: [exists, text]
    tgt_file,      \* content of the target path: [exists, text]
    include,       \* copy_annotations argument (a set of identifiers; {} = None)
    exclude,       \* copy_annotations argument
    dry_run,       \* copy_annotations argument of the running call
    pc,            \* position inside copy_annotations
    src_text,      \* local src_text
    dest_text,     \* local dest_text
    candidates,    \* local candidates
    definition_snippets,  \* local definition_snippets
    group_snippets,       \* local group_snippets
    new_text,      \* local new_text
    changed,       \* local changed
    copied_groups, \* local copied_groups
    def_i,         \* position of the loop over definition_snippets (line 282)
    grp_i,         \* position of the loop over group_snippets (line 287)
    outcome,       \* how the running call ended: "none", "ok" or the error raised
    writes,        \* number of target_path.write_text calls of the running call
    tgt_at_call,   \* text of the target file when the running call started
    history,       \* completed calls, oldest first
    listed,        \* last result of list_overlay_groups(source)
    loc,           \* span locator harness: [phase, text, id, res]
    mrg            \* merge engine harness: [phase, cls, text, id, snippet, first, second]

vars == <<src_file, tgt_file, include, exclude, dry_run, pc, src_text, dest_text,
          candidates, definition_snippets, group_snippets, new_text, changed,
          copied_groups, def_i, grp_i, outcome, writes, tgt_at_call, history, listed, loc, mrg>>

---------------------------------------------------------------------------
(* Characters and strings *)

UpperChars == <<"A","B","C","D","E","F","G","H","I","J","K","L","M",
                "N","O","P","Q","R","S","T","U","V","W","X","Y","Z">>
LowerChars == <<"a","b","c","d","e","f","g","h","i","j","k","l","m",
                "n","o","p","q","r","s","t","u","v","w","x","y","z">>
DigitChars == {"0","1","2","3","4","5","6","7","8","9"}

Range(s) == {s[i] : i \in DOMAIN s}

\* the regular expression class \w (for the characters the documents use)
IsWordChar(c) == c \in Range(UpperChars) \cup Range(LowerChars) \cup DigitChars \cup {"_"}

\* str.lower, one character
LowerChar(c) ==
    IF \E i \in DOMAIN UpperChars : UpperChars[i] = c
    THEN LowerChars[CHOOSE i \in DOMAIN UpperChars : UpperChars[i] = c]
    ELSE c

\* str.lower
Lower(s) == [i \in DOMAIN s |-> LowerChar(s[i])] \o <<>>

\* str.startswith
StartsWith(s, p) == Len(p) <= Len(s) /\ SubSeq(s, 1, Len(p)) = p

Min(S) == CHOOSE x \in S : \A y \in S : x <= y
Max(S) == CHOOSE x \in S : \A y \in S : x >= y

---------------------------------------------------------------------------
(* Tokens *)

Attr(n, form, ref) == [n |-> n, form |-> form, ref |-> ref]
IdAttr(id) == Attr("id", "plain", id)
Open(name, attrs) == [k |-> "open", name |-> name, attrs |-> attrs]
Self(name, attrs) == [k |-> "self", name |-> name, attrs |-> attrs]
Close(name) == [k |-> "close", name |-> name, attrs |-> <<>>]
NL == [k |-> "nl", name |-> <<>>, attrs |-> <<>>]
SP == [k |-> "sp", name |-> <<>>, attrs |-> <<>>]

IsTag(tok) == tok.k \in {"open", "self"}

\* the token's characters contain  id="<id>"
HasIdToken(tok, id) ==
    /\ IsTag(tok)
    /\ \E i \in DOMAIN tok.attrs :
          tok.attrs[i].n = "id" /\ tok.attrs[i].form = "plain" /\ tok.attrs[i].ref = id

\* element.get('id'): the value of the id attribute, <<>> when there is none
IdOf(tok) ==
    IF \E i \in DOMAIN tok.attrs : tok.attrs[i].n = "id"
    THEN tok.attrs[CHOOSE i \in DOMAIN tok.attrs : tok.attrs[i].n = "id"].ref
    ELSE <<>>

G == <<"g">>
FIGURE_1 == <<"f","i","g","u","r","e","_","1">>

---------------------------------------------------------------------------
(* Span locator *)

NotFound == [found |-> FALSE, snippet |-> <<>>, start |-> 0]
Found(snippet, start) == [found |-> TRUE, snippet |-> snippet, start |-> start]

\* svg_text.find('id="<element_id>"'): the first token holding it, 0 for -1
IdPos(svg_text, element_id) ==
    LET S == {i \in DOMAIN svg_text : HasIdToken(svg_text[i], element_id)}
    IN  IF S = {} THEN 0 ELSE Min(S)

\* the token's characters begin with "<" + tag
BeginsOpenTag(tok, tag) == IsTag(tok) /\ StartsWith(tok.name, tag)

\* svg_text.rfind("<" + tag, 0, id_pos), id_pos lying inside token id_tok
OpenStart(svg_text, tag, id_tok) ==
    LET S == {i \in 1..id_tok : BeginsOpenTag(svg_text[i], tag)}
    IN  IF S = {} THEN 0 ELSE Max(S)

\* the name is tag followed by a word boundary (the \b of  </?tag\b )
NameAtBoundary(name, tag) ==
    /\ StartsWith(name, tag)
    /\ (Len(name) = Len(tag) \/ ~IsWordChar(name[Len(tag) + 1]))

\* re.finditer(r"</?tag\b") yields the token as "<tag" / as "</tag"
IsOpenMatch(tok, tag) == IsTag(tok) /\ NameAtBoundary(tok.name, tag)
IsCloseMatch(tok, tag) == tok.k = "close" /\ NameAtBoundary(tok.name, tag)

\* what re.finditer(r"</?tag\b") yields at every token: +1 for "<tag",
\* -1 for "</tag", 0 for no match (a tuple over the positions of the text)
TagMatches(svg_text, tag) ==
    [m \in DOMAIN svg_text |->
        IF IsOpenMatch(svg_text[m], tag) THEN 1
        ELSE IF IsCloseMatch(svg_text[m], tag) THEN -1 ELSE 0] \o <<>>

\* the depth counter of lines 82-88 after the match at token j, the walk
\* having started at token from: the open matches less the close matches
DepthAfter(matches, from, j) ==
    Cardinality({m \in from..j : matches[m] = 1})
    - Cardinality({m \in from..j : matches[m] = -1})

\* the loop of lines 83-94 from token from: the token of the first close
\* match that leaves the depth at zero, 0 when the matches run out
DepthWalk(svg_text, tag, from) ==
    LET matches == TagMatches(svg_text, tag)
        S == {j \in from..Len(svg_text) :
                 matches[j] = -1 /\ DepthAfter(matches, from, j) = 0}
    IN  IF S = {} THEN 0 ELSE Min(S)

\* _extract_tag_block_with_pos
extract_tag_block_with_pos(svg_text, element_id, tag) ==
    LET id_pos == IdPos(svg_text, element_id)
        open_start == OpenStart(svg_text, tag, id_pos)
        close_tok == DepthWalk(svg_text, tag, open_start)
    IN  IF id_pos = 0 THEN NotFound
        ELSE IF open_start = 0 THEN NotFound
        ELSE IF close_tok = 0 THEN NotFound
        ELSE Found(SubSeq(svg_text, open_start, close_tok), open_start)

\* the characters of the class  [\\w:-]  as the pattern strings spell it
\* (raw strings: a backslash, w, colon, hyphen)
TagNameClass == {"\\", "w", ":", "-"}

\* <([\\w:-]+)[^>]*id="<id>"  matches at the start of this token
DefTagMatches(tok, element_id) ==
    /\ HasIdToken(tok, element_id)
    /\ Len(tok.name) > 0
    /\ tok.name[1] \in TagNameClass

\* the name a close tag must have to match  </\\1>  (a backslash and "1")
BackrefCloseName == <<"\\", "1">>

\* end token of the match of  (?:/>|>.*?</\\1>)  for the tag at token i,
\* 0 when there is none
SingleTagEnd(svg_text, i) ==
    IF svg_text[i].k = "self" THEN i
    ELSE LET S == {j \in (i + 1)..Len(svg_text) :
                       svg_text[j].k = "close" /\ svg_text[j].name = BackrefCloseName}
         IN  IF S = {} THEN 0 ELSE Min(S)

\* _extract_single_tag_with_pos
extract_single_tag_with_pos(svg_text, element_id) ==
    LET S == {i \in DOMAIN svg_text :
                 DefTagMatches(svg_text[i], element_id) /\ SingleTagEnd(svg_text, i) # 0}
    IN  IF S = {} THEN NotFound
        ELSE Found(SubSeq(svg_text, Min(S), SingleTagEnd(svg_text, Min(S))), Min(S))

---------------------------------------------------------------------------
(* xml.etree.ElementTree: the parse and the element tree.  An element is  *)
(* the position of its open (or self-closing) tag in the text.            *)

\* the number of elements open before token i
OpenDepth(text, i) ==
    Cardinality({j \in 1..(i - 1) : text[j].k = "open"})
    - Cardinality({j \in 1..(i - 1) : text[j].k = "close"})

\* OpenDepth at every position, as a tuple computed once per document
Depths(text) == [i \in 1..(Len(text) + 1) |-> OpenDepth(text, i)] \o <<>>

\* the open tag still unclosed at token i that was opened last, 0 if none
Enclosing(text, depth, i) ==
    LET S == {j \in 1..(i - 1) : text[j].k = "open" /\ depth[j] = depth[i] - 1}
    IN  IF S = {} THEN 0 ELSE Max(S)

\* ET.fromstring(text) does not raise ParseError: every close tag closes the
\* element opened last, by name; one root element; nothing left open
WellFormed(text) ==
    LET depth == Depths(text)
    IN  /\ \A i \in DOMAIN text :
              text[i].k = "close" =>
                  /\ depth[i] > 0
                  /\ text[Enclosing(text, depth, i)].name = text[i].name
        /\ depth[Len(text) + 1] = 0
        /\ Cardinality({i \in DOMAIN text : IsTag(text[i]) /\ depth[i] = 0}) = 1

\* root.iter(): the elements in document order
Elements(text) == {i \in DOMAIN text : IsTag(text[i])}

\* the members of a set of positions in increasing order
InOrder(S) ==
    [k \in 1..Cardinality(S) |-> CHOOSE i \in S : Cardinality({j \in S : j <= i}) = k]

\* parent_map: the parent of every element, 0 for the root (parent_map.get
\* gives None); a tuple over the positions of the text, 0 at the other tokens
ParentMap(text) ==
    LET depth == Depths(text)
    IN  [i \in DOMAIN text |-> IF IsTag(text[i]) THEN Enclosing(text, depth, i) ELSE 0]
        \o <<>>

\* the ancestors of element i, nearest first
RECURSIVE Ancestors(_, _)
Ancestors(parent_map, i) ==
    IF parent_map[i] = 0 THEN <<>>
    ELSE <<parent_map[i]>> \o Ancestors(parent_map, parent_map[i])

\* element.iter(): element i and its descendants, as a set of positions
Subtree(text, parent_map, i) ==
    {j \in Elements(text) :
        j = i \/ \E a \in DOMAIN Ancestors(parent_map, j) : Ancestors(parent_map, j)[a] = i}

\* _local_name
local_name(tag) ==
    LET S == {i \in DOMAIN tag : tag[i] = "}"}
    IN  IF S = {} THEN tag ELSE SubSeq(tag, Max(S) + 1, Len(tag))

---------------------------------------------------------------------------
(* Candidate classifier *)

MATPLOTLIB_PREFIXES == {
      <<"f","i","g","u","r","e","_">>,
      <<"a","x","e","s","_">>,
      <<"p","a","t","c","h","_">>,
      <<"l","e","g","e","n","d","_">>,
      <<"l","i","n","e">>,
      <<"x","t","i","c","k","_">>,
      <<"y","t","i","c","k","_">>,
      <<"m","a","t","p","l","o","t","l","i","b",".","a","x","i","s","_">>,
      <<"p","o","l","y","c","o","l","l","e","c","t","i","o","n","_">>,
      <<"p","a","t","h","c","o","l","l","e","c","t","i","o","n","_">>,
      <<"s","t","r","e","a","m","p","l","o","t","_">>,
      <<"q","u","i","v","e","r","_">>,
      <<"t","a","b","l","e","_">>,
      <<"t","e","x","t","_">>,
      <<"i","m","a","g","e","_">>,
      <<"s","p","i","n","e","_">>,
      <<"p","a","n","e","_">>,
      <<"e","v","e","n","t","p","l","o","t","_">>,
      <<"b","a","r","c","o","n","t","a","i","n","e","r","_">>,
      <<"m","p","l","_","t","o","o","l","k","i","t","s">> }

\* mutant: the prefixes are compared without lower-casing the identifier
looks_like_matplotlib_group_CaseSensitive(group_id) ==
    \E prefix \in MATPLOTLIB_PREFIXES : StartsWith(group_id, prefix)

\* _looks_like_matplotlib_group
looks_like_matplotlib_group(group_id) ==
    LET lid == Lower(group_id)
    IN  \E prefix \in MATPLOTLIB_PREFIXES : StartsWith(lid, prefix)

\* the test of lines 111-113 on a group's own identifier
RejectedId(gid) ==
    gid = <<>> \/ gid = FIGURE_1 \/ looks_like_matplotlib_group(gid)

\* the ancestor walk of lines 116-125: skip is set
SkippedByAncestor(text, parent_map, i) ==
    \E a \in DOMAIN Ancestors(parent_map, i) :
        LET pid == IdOf(text[Ancestors(parent_map, i)[a]])
        IN  pid # <<>> /\ (pid = FIGURE_1 \/ looks_like_matplotlib_group(pid))

\* line 126: the id is the element's only attribute
OnlyIdAttribute(tok) == Len(tok.attrs) = 1 /\ IdOf(tok) # <<>>

\* 'id="figure_1"' in snippet
HoldsFigure1(snippet) == \E j \in DOMAIN snippet : HasIdToken(snippet[j], FIGURE_1)

CandidateGroup(gid, element, snippet, start) ==
    [group_id |-> gid, element |-> element, snippet |-> snippet,
     start |-> start, end |-> start + Len(snippet)]

\* the body of the loop of lines 107-135 for one element: the candidate it
\* appends, as a sequence of zero or one
RawCandidateOf(text, parent_map, i) ==
    LET gid == IdOf(text[i])
        extracted == extract_tag_block_with_pos(text, gid, G)
    IN  IF local_name(text[i].name) # G THEN <<>>
        ELSE IF RejectedId(gid) THEN <<>>
        ELSE IF SkippedByAncestor(text, parent_map, i) THEN <<>>
        ELSE IF OnlyIdAttribute(text[i]) THEN <<>>
        ELSE IF ~extracted.found THEN <<>>
        ELSE IF HoldsFigure1(extracted.snippet) THEN <<>>
        ELSE <<CandidateGroup(gid, i, extracted.snippet, extracted.start)>>

\* raw_candidates before the sort: the loop over root.iter()
RawCandidatesUnsorted(text, parent_map) ==
    LET per == [i \in DOMAIN text |->
                   IF IsTag(text[i]) THEN RawCandidateOf(text, parent_map, i) ELSE <<>>]
               \o <<>>
        order == InOrder({i \in DOMAIN text : per[i] # <<>>})
    IN  [k \in DOMAIN order |-> per[order[k]][1]]

\* list.sort(key = start): the stable sort, by insertion
RECURSIVE SortByStart(_)
SortByStart(s) ==
    IF s = <<>> THEN <<>>
    ELSE LET rest == SortByStart(SubSeq(s, 1, Len(s) - 1))
             x == s[Len(s)]
             k == Cardinality({i \in DOMAIN rest : rest[i].start <= x.start})
         IN  SubSeq(rest, 1, k) \o <<x>> \o SubSeq(rest, k + 1, Len(rest))

\* mutant: the comparison of the end offsets is reversed
ContainedIn_EndReversed(cand, kept) ==
    \E e \in DOMAIN kept : cand.start >= kept[e].start /\ cand.end >= kept[e].end

\* line 141: cand lies inside a candidate already kept
ContainedIn(cand, kept) ==
    \E e \in DOMAIN kept : cand.start >= kept[e].start /\ cand.end <= kept[e].end

\* the pruning loop of lines 139-143 over the first n sorted candidates
RECURSIVE PruneUpTo(_, _)
PruneUpTo(sorted, n) ==
    IF n = 0 THEN <<>>
    ELSE LET kept == PruneUpTo(sorted, n - 1)
         IN  IF ContainedIn(sorted[n], kept) THEN kept ELSE Append(kept, sorted[n])

\* raw_candidates after line 137
RawCandidates(text) == SortByStart(RawCandidatesUnsorted(text, ParentMap(text)))

\* _discover_candidate_groups
discover_candidate_groups(text) ==
    LET raw == RawCandidates(text)
    IN  PruneUpTo(raw, Len(raw))

---------------------------------------------------------------------------
(* Reference resolver *)

RefAttrNames == {"marker-start", "marker-mid", "marker-end", "filter", "clip-path"}
\* the attribute names of the documents that contain "path-effect"
PathEffectAttrNames == {"inkscape:path-effect"}

\* the references one attribute adds, in order (lines 154-165)
AttrRefs(a) ==
    IF a.form = "url" /\ a.ref # <<>> THEN <<a.ref>>
    ELSE IF a.form = "hash" /\ a.n \in (PathEffectAttrNames \cup RefAttrNames) THEN <<a.ref>>
    ELSE <<>>

RECURSIVE TokenRefsUpTo(_, _)
TokenRefsUpTo(attrs, n) ==
    IF n = 0 THEN <<>> ELSE TokenRefsUpTo(attrs, n - 1) \o AttrRefs(attrs[n])

\* keep the first occurrence of every entry (the seen set)
RECURSIVE Dedupe(_)
Dedupe(s) ==
    IF s = <<>> THEN <<>>
    ELSE LET rest == Dedupe(SubSeq(s, 1, Len(s) - 1))
         IN  IF s[Len(s)] \in Range(rest) THEN rest ELSE Append(rest, s[Len(s)])

\* the references of the first n nodes of element.iter()
RECURSIVE NodeRefsUpTo(_, _, _)
NodeRefsUpTo(text, nodes, n) ==
    IF n = 0 THEN <<>>
    ELSE NodeRefsUpTo(text, nodes, n - 1)
         \o TokenRefsUpTo(text[nodes[n]].attrs, Len(text[nodes[n]].attrs))

\* _collect_referenced_ids
collect_referenced_ids(text, element) ==
    LET nodes == InOrder(Subtree(text, ParentMap(text), element))
    IN  Dedupe(NodeRefsUpTo(text, nodes, Len(nodes)))

---------------------------------------------------------------------------
(* Merge engine *)

SVG_TAG == <<"s","v","g">>
DEFS_TAG == <<"d","e","f","s">>

\* _ensure_trailing_newline
ensure_trailing_newline(text) ==
    IF text # <<>> /\ text[Len(text)] = NL THEN text ELSE Append(text, NL)

\* str.find(pat): the first position where the tokens spell pat, 0 for -1
FindSeq(text, pat) ==
    LET S == {i \in 1..(Len(text) - Len(pat) + 1) : SubSeq(text, i, i + Len(pat) - 1) = pat}
    IN  IF S = {} THEN 0 ELSE Min(S)

\* where the leading  [ \t]*  of a match ending its run at token i begins
RECURSIVE IndentStart(_, _)
IndentStart(text, i) ==
    IF i > 1 /\ text[i - 1] = SP THEN IndentStart(text, i - 1) ELSE i

\* the trailing  \n?  of a match whose tag part ends at token j
WithNewline(text, j) ==
    IF j < Len(text) /\ text[j + 1] = NL THEN j + 1 ELSE j

\* dest_text[:match.start()] + prepared + dest_text[match.end():]
Splice(text, first, last, prepared) ==
    SubSeq(text, 1, first - 1) \o prepared \o SubSeq(text, last + 1, Len(text))

\* dest_text[:idx] + insertion + dest_text[idx:], with the leading line break
\* of lines 184-186 / 207-209
InsertBefore(text, idx, prepared) ==
    LET insertion == IF idx > 1 /\ text[idx - 1] # NL THEN <<NL>> \o prepared ELSE prepared
    IN  SubSeq(text, 1, idx - 1) \o insertion \o SubSeq(text, idx, Len(text))

Merged(text, ch) == [text |-> text, changed |-> ch, error |-> "none"]
MergeError(text, err) == [text |-> text, changed |-> FALSE, error |-> err]

\* a close tag that matches  </[\\w:-]+>
IsDefCloseTag(tok) ==
    tok.k = "close" /\ Len(tok.name) > 0 /\ \A c \in Range(tok.name) : c \in TagNameClass

\* last token of the match of  (?:/>|>.*?</[\\w:-]+>)  for the tag at i, 0 if none
DefMatchEnd(text, i) ==
    IF text[i].k = "self" THEN i
    ELSE LET S == {j \in (i + 1)..Len(text) : IsDefCloseTag(text[j])}
         IN  IF S = {} THEN 0 ELSE Min(S)

\* pattern.search(dest_text) of _insert_or_replace_definition: the tag token
\* of the leftmost match, 0 if there is no match
DefinitionMatch(text, element_id) ==
    LET S == {i \in DOMAIN text :
                 DefTagMatches(text[i], element_id) /\ DefMatchEnd(text, i) # 0}
    IN  IF S = {} THEN 0 ELSE Min(S)

\* _insert_or_replace_definition
insert_or_replace_definition(dest, element_id, snippet) ==
    LET prepared == ensure_trailing_newline(snippet)
        m == DefinitionMatch(dest, element_id)
        replaced == Splice(dest, IndentStart(dest, m),
                           WithNewline(dest, DefMatchEnd(dest, m)), prepared)
        close_idx == FindSeq(dest, <<Close(DEFS_TAG)>>)
    IN  IF m # 0 THEN Merged(replaced, replaced # dest)
        ELSE IF close_idx = 0 THEN MergeError(dest, "missing_defs")
        ELSE Merged(InsertBefore(dest, close_idx, prepared), TRUE)

\* last token of the match of  .*?</g>  after the tag at i, 0 if none
GroupMatchEnd(text, i) ==
    LET S == {j \in (i + 1)..Len(text) : text[j] = Close(G)}
    IN  IF S = {} THEN 0 ELSE Min(S)

\* pattern.search(dest_text) of _insert_or_replace_group,
\* <g[^>]*id="<id>"[^>]*>.*?</g> : the tag token of the leftmost match, 0 if none
GroupMatch(text, element_id) ==
    LET S == {i \in DOMAIN text :
                 /\ BeginsOpenTag(text[i], G)
                 /\ HasIdToken(text[i], element_id)
                 /\ GroupMatchEnd(text, i) # 0}
    IN  IF S = {} THEN 0 ELSE Min(S)

GroupSlotMarker == <<NL, SP, Close(G), NL, SP, Open(DEFS_TAG, <<>>)>>
SvgEndMarker == <<NL, Close(SVG_TAG)>>

\* _insert_or_replace_group
insert_or_replace_group(dest, element_id, snippet) ==
    LET prepared == ensure_trailing_newline(snippet)
        m == GroupMatch(dest, element_id)
        replaced == Splice(dest, IndentStart(dest, m),
                           WithNewline(dest, GroupMatchEnd(dest, m)), prepared)
        slot == FindSeq(dest, GroupSlotMarker)
        svg_end == FindSeq(dest, SvgEndMarker)
        marker_idx == IF slot # 0 THEN slot ELSE svg_end
    IN  IF m # 0 THEN Merged(replaced, replaced # dest)
        ELSE IF marker_idx = 0 THEN MergeError(dest, "no_insertion_point")
        ELSE Merged(InsertBefore(dest, marker_idx, prepared), TRUE)

---------------------------------------------------------------------------
(* The documents the operations are run on *)

PATH_TAG == <<"p","a","t","h">>
RECT_TAG == <<"r","e","c","t">>
MARKER_TAG == <<"m","a","r","k","e","r">>
W_TAG == <<"w">>

ANNOTATION_1 == <<"a","n","n","o","t","a","t","i","o","n","_","1">>
ARROW1 == <<"a","r","r","o","w","1">>
WDEF == <<"w","d","e","f">>
AXES_1 == <<"a","x","e","s","_","1">>
TEXT_3 == <<"T","e","x","t","_","3">>
INNER == <<"i","n","n","e","r">>
NOTE == <<"n","o","t","e">>

ClassAttr == Attr("class", "plain", <<"c">>)

\* one line: n spaces, the tag, a line break
Line(n, tok) == [i \in 1..n |-> SP] \o <<tok, NL>>

RECURSIVE Concat(_)
Concat(ss) == IF ss = <<>> THEN <<>> ELSE ss[1] \o Concat(Tail(ss))

\* an overlay fragment of the source at indentation 1, by kind
Fragment(kind, id) ==
    LET outer(attrs, body) ==
            Line(1, Open(G, attrs)) \o body \o Line(1, Close(G))
        inner(attrs, body) ==
            Line(1, Open(G, attrs)) \o body \o Line(1, Close(G))
    IN  CASE kind = "flat" ->
               outer(<<IdAttr(id), ClassAttr>>, Line(1, Self(PATH_TAG, <<>>)))
          [] kind = "ref" ->
               outer(<<IdAttr(id), Attr("marker-end", "url", ARROW1)>>,
                     Line(1, Self(PATH_TAG, <<>>)))
          [] kind = "refw" ->
               outer(<<IdAttr(id), Attr("filter", "hash", WDEF)>>,
                     Line(1, Self(PATH_TAG, <<Attr("clip-path", "url", WDEF)>>)))
          [] kind = "nested" ->
               outer(<<IdAttr(id), ClassAttr>>,
                     inner(<<>>, Line(1, Self(PATH_TAG, <<>>))))
          [] kind = "nestedq" ->
               outer(<<IdAttr(id), ClassAttr>>,
                     inner(<<IdAttr(INNER), ClassAttr>>, Line(1, Self(PATH_TAG, <<>>))))
          [] kind = "selfg" ->
               outer(<<IdAttr(id), ClassAttr>>, Line(1, Self(G, <<ClassAttr>>)))
          [] kind = "selfq" ->
               outer(<<IdAttr(id), ClassAttr>>,
                     inner(<<IdAttr(INNER), ClassAttr>>, Line(1, Self(G, <<ClassAttr>>))))
          [] kind = "bare" ->
               outer(<<IdAttr(id)>>, Line(1, Self(PATH_TAG, <<>>)))
          [] kind = "gen" ->
               outer(<<IdAttr(TEXT_3), ClassAttr>>,
                     inner(<<IdAttr(id), ClassAttr>>, Line(1, Self(PATH_TAG, <<>>))))

FirstKinds == {"flat", "ref", "refw", "nested", "nestedq", "selfg", "selfq", "bare", "gen"}
SecondKinds == {"none", "flat", "nested"}

\* a source document: defs, the generated figure, then the overlay fragments
Source(k1, k2) ==
    Concat(<<Line(0, Open(SVG_TAG, <<>>)),
             Line(1, Open(DEFS_TAG, <<>>)),
             Line(1, Self(MARKER_TAG, <<IdAttr(ARROW1)>>)),
             Line(1, Self(W_TAG, <<IdAttr(WDEF)>>)),
             Line(1, Close(DEFS_TAG)),
             Line(1, Open(G, <<IdAttr(FIGURE_1), ClassAttr>>)),
             Line(1, Open(G, <<IdAttr(AXES_1), ClassAttr>>)),
             Line(1, Close(G)),
             Line(1, Close(G)),
             Fragment(k1, ANNOTATION_1),
             IF k2 = "none" THEN <<>> ELSE Fragment(k2, NOTE),
             Line(0, Close(SVG_TAG))>>)

\* a source whose root element is never closed
MalformedSource == SubSeq(Source("flat", "none"), 1, Len(Source("flat", "none")) - 2)

File(text) == [exists |-> TRUE, text |-> text]
Missing == [exists |-> FALSE, text |-> <<>>]

SourceFiles ==
    {File(Source(k1, k2)) : k1 \in FirstKinds, k2 \in SecondKinds}
    \cup {File(MalformedSource), Missing}

\* a group as an earlier transfer left it in the overlay slot
StaleGroup(kind) ==
    CASE kind = "flat" ->
           <<Open(G, <<IdAttr(ANNOTATION_1), ClassAttr>>), NL>>
           \o Line(1, Self(RECT_TAG, <<>>)) \o Line(1, Close(G))
      [] kind = "nested" ->
           <<Open(G, <<IdAttr(ANNOTATION_1), ClassAttr>>), NL>>
           \o Line(1, Open(G, <<>>)) \o Line(1, Self(RECT_TAG, <<>>)) \o Line(1, Close(G))
           \o Line(1, Close(G))
      [] kind = "indented" ->
           Line(2, Open(G, <<IdAttr(ANNOTATION_1), ClassAttr>>))
           \o Line(1, Self(RECT_TAG, <<>>)) \o <<SP, SP, Close(G)>>
      [] kind = "selfnote" ->
           Line(1, Self(G, <<IdAttr(NOTE), ClassAttr>>))
      [] kind = "none" -> <<>>

\* a generated target: the figure, the overlay slot, then the defs
Target(stale) ==
    Concat(<<Line(0, Open(SVG_TAG, <<>>)),
             Line(1, Open(G, <<IdAttr(FIGURE_1)>>)),
             Line(1, Open(G, <<IdAttr(AXES_1)>>)),
             Line(1, Close(G)),
             StaleGroup(stale),
             Line(1, Close(G)),
             Line(1, Open(DEFS_TAG, <<>>)),
             Line(1, Close(DEFS_TAG)),
             Line(0, Close(SVG_TAG))>>)

\* a target with the defs first: no overlay slot, groups go before </svg>
TargetNoSlot ==
    Concat(<<Line(0, Open(SVG_TAG, <<>>)),
             Line(1, Open(DEFS_TAG, <<>>)),
             Line(1, Close(DEFS_TAG)),
             Line(1, Open(G, <<IdAttr(FIGURE_1)>>)),
             Line(1, Close(G)),
             Line(0, Close(SVG_TAG))>>)

\* a target without a defs section
TargetNoDefs ==
    Concat(<<Line(0, Open(SVG_TAG, <<>>)),
             Line(1, Open(G, <<IdAttr(FIGURE_1)>>)),
             Line(1, Close(G)),
             Line(0, Close(SVG_TAG))>>)

\* a target with neither the overlay slot nor a line-leading </svg>
TargetNoInsertionPoint ==
    Concat(<<Line(0, Open(SVG_TAG, <<>>)),
             Line(1, Open(DEFS_TAG, <<>>)),
             Line(1, Close(DEFS_TAG)),
             Line(1, Close(SVG_TAG))>>)

StaleKinds == {"none", "flat", "nested", "indented", "selfnote"}

TargetFiles ==
    {File(Target(st)) : st \in StaleKinds}
    \cup {File(TargetNoSlot), File(TargetNoDefs), File(TargetNoInsertionPoint), Missing}

\* the include / exclude arguments drawn ({} stands for None)
Filters == { [include |-> {}, exclude |-> {}],
             [include |-> {ANNOTATION_1}, exclude |-> {}],
             [include |-> {ANNOTATION_1}, exclude |-> {ANNOTATION_1}] }

---------------------------------------------------------------------------
(* Transfer orchestrator: copy_annotations, one action per step *)

\* number of consecutive calls explored
MaxRuns == 2

\* lines 251-256: the include filter, then the exclude filter ({} is falsy)
FilterCandidates(cands, inc, exc) ==
    LET kept1 == IF inc # {} THEN SelectSeq(cands, LAMBDA c : c.group_id \in inc) ELSE cands
    IN  IF exc # {} THEN SelectSeq(kept1, LAMBDA c : c.group_id \notin exc) ELSE kept1

Snippet(start, id, snippet) == [start |-> start, id |-> id, snippet |-> snippet]

\* lines 268-274 for the first n references of one candidate
RECURSIVE AddDefinitions(_, _, _, _)
AddDefinitions(defs, text, refs, n) ==
    IF n = 0 THEN defs
    ELSE LET d == AddDefinitions(defs, text, refs, n - 1)
             ref == refs[n]
             extracted == extract_single_tag_with_pos(text, ref)
         IN  IF \E i \in DOMAIN d : d[i].id = ref THEN d     \* ref in ref_seen
             ELSE IF extracted.found
                  THEN Append(d, Snippet(extracted.start, ref, extracted.snippet))
             ELSE d

\* definition_snippets after the loop of line 265 over the first n candidates
RECURSIVE DefinitionsUpTo(_, _, _)
DefinitionsUpTo(text, cands, n) ==
    IF n = 0 THEN <<>>
    ELSE LET refs == collect_referenced_ids(text, cands[n].element)
         IN  AddDefinitions(DefinitionsUpTo(text, cands, n - 1), text, refs, Len(refs))

\* group_snippets after the loop of line 265
GroupsOf(cands) ==
    [i \in DOMAIN cands |-> Snippet(cands[i].start, cands[i].group_id, cands[i].snippet)]

CallRecord(out, result) ==
    [dry_run |-> dry_run, outcome |-> out, result |-> result,
     before |-> tgt_at_call.text, after |-> tgt_file.text]

NoLocals ==
    /\ src_text = <<>> /\ dest_text = <<>> /\ candidates = <<>>
    /\ definition_snippets = <<>> /\ group_snippets = <<>> /\ new_text = <<>>
    /\ changed = FALSE /\ copied_groups = <<>> /\ def_i = 0 /\ grp_i = 0

locals == <<src_text, dest_text, candidates, definition_snippets, group_snippets,
            new_text, changed, copied_groups, def_i, grp_i>>
args == <<include, exclude, dry_run>>
harness == <<loc, mrg>>

\* the call ends: raise AnnotationError (out names it) or return (out = "ok")
EndCall(out, result) ==
    /\ pc' = "idle"
    /\ outcome' = out
    /\ history' = Append(history, CallRecord(out, result))

\* copy_annotations(source, target, include, exclude, dry_run) is called
Call ==
    /\ pc = "idle"
    /\ Len(history) < MaxRuns
    /\ \E d \in BOOLEAN : dry_run' = d
    /\ pc' = "exists"
    /\ outcome' = "none"
    /\ writes' = 0
    /\ tgt_at_call' = tgt_file
    /\ src_text' = <<>> /\ dest_text' = <<>> /\ candidates' = <<>>
    /\ definition_snippets' = <<>> /\ group_snippets' = <<>> /\ new_text' = <<>>
    /\ changed' = FALSE /\ copied_groups' = <<>> /\ def_i' = 0 /\ grp_i' = 0
    /\ UNCHANGED <<src_file, tgt_file, include, exclude, history, listed, harness>>

\* lines 236-239
CheckExists ==
    /\ pc = "exists"
    /\ IF ~src_file.exists THEN EndCall("source_not_found", <<>>)
       ELSE IF ~tgt_file.exists THEN EndCall("target_not_found", <<>>)
       ELSE pc' = "read" /\ UNCHANGED <<outcome, history>>
    /\ UNCHANGED <<src_file, tgt_file, args, locals, writes, tgt_at_call, listed, harness>>

\* lines 241-242
ReadFiles ==
    /\ pc = "read"
    /\ src_text' = src_file.text
    /\ dest_text' = tgt_file.text
    /\ pc' = "parse"
    /\ UNCHANGED <<src_file, tgt_file, args, candidates, definition_snippets,
                   group_snippets, new_text, changed, copied_groups, def_i, grp_i,
                   outcome, writes, tgt_at_call, history, listed, harness>>

\* lines 244-247
ParseSource ==
    /\ pc = "parse"
    /\ IF WellFormed(src_text) THEN pc' = "discover" /\ UNCHANGED <<outcome, history>>
       ELSE EndCall("parse_error", <<>>)
    /\ UNCHANGED <<src_file, tgt_file, args, locals, writes, tgt_at_call, listed, harness>>

\* line 249
Discover ==
    /\ pc = "discover"
    /\ candidates' = discover_candidate_groups(src_text)
    /\ pc' = "filter"
    /\ UNCHANGED <<src_file, tgt_file, args, src_text, dest_text, definition_snippets,
                   group_snippets, new_text, changed, copied_groups, def_i, grp_i,
                   outcome, writes, tgt_at_call, history, listed, harness>>

\* lines 251-259
Filter ==
    /\ pc = "filter"
    /\ LET kept == FilterCandidates(candidates, include, exclude)
       IN  /\ candidates' = kept
           /\ IF kept = <<>> THEN EndCall("no_candidates", <<>>)
              ELSE pc' = "collect" /\ UNCHANGED <<outcome, history>>
    /\ UNCHANGED <<src_file, tgt_file, args, src_text, dest_text, definition_snippets,
                   group_snippets, new_text, changed, copied_groups, def_i, grp_i,
                   writes, tgt_at_call, listed, harness>>

\* lines 261-280
Collect ==
    /\ pc = "collect"
    /\ definition_snippets' =
           SortByStart(DefinitionsUpTo(src_text, candidates, Len(candidates)))
    /\ group_snippets' = SortByStart(GroupsOf(candidates))
    /\ new_text' = dest_text
    /\ changed' = FALSE
    /\ def_i' = 1
    /\ pc' = "defs"
    /\ UNCHANGED <<src_file, tgt_file, args, src_text, dest_text, candidates,
                   copied_groups, grp_i, outcome, writes, tgt_at_call, history,
                   listed, harness>>

\* lines 282-284, one iteration
MergeDefinition ==
    /\ pc = "defs"
    /\ def_i <= Len(definition_snippets)
    /\ LET item == definition_snippets[def_i]
           r == insert_or_replace_definition(new_text, item.id, item.snippet)
       IN  IF r.error # "none"
           THEN EndCall(r.error, <<>>) /\ UNCHANGED <<new_text, changed, def_i>>
           ELSE /\ new_text' = r.text
                /\ changed' = (changed \/ r.changed)
                /\ def_i' = def_i + 1
                /\ UNCHANGED <<pc, outcome, history>>
    /\ UNCHANGED <<src_file, tgt_file, args, src_text, dest_text, candidates,
                   definition_snippets, group_snippets, copied_groups, grp_i,
                   writes, tgt_at_call, listed, harness>>

\* line 282 exhausted; line 286
DefinitionsDone ==
    /\ pc = "defs"
    /\ def_i > Len(definition_snippets)
    /\ copied_groups' = <<>>
    /\ grp_i' = 1
    /\ pc' = "groups"
    /\ UNCHANGED <<src_file, tgt_file, args, src_text, dest_text, candidates,
                   definition_snippets, group_snippets, new_text, changed, def_i,
                   outcome, writes, tgt_at_call, history, listed, harness>>

\* lines 287-291, one iteration
MergeGroup ==
    /\ pc = "groups"
    /\ grp_i <= Len(group_snippets)
    /\ LET item == group_snippets[grp_i]
           r == insert_or_replace_group(new_text, item.id, item.snippet)
       IN  IF r.error # "none"
           THEN EndCall(r.error, <<>>)
                /\ UNCHANGED <<new_text, changed, copied_groups, grp_i>>
           ELSE /\ new_text' = r.text
                /\ copied_groups' =
                       IF r.changed THEN Append(copied_groups, item.id) ELSE copied_groups
                /\ changed' = (changed \/ r.changed)
                /\ grp_i' = grp_i + 1
                /\ UNCHANGED <<pc, outcome, history>>
    /\ UNCHANGED <<src_file, tgt_file, args, src_text, dest_text, candidates,
                   definition_snippets, group_snippets, def_i,
                   writes, tgt_at_call, listed, harness>>

\* line 287 exhausted
GroupsDone ==
    /\ pc = "groups"
    /\ grp_i > Len(group_snippets)
    /\ pc' = "write"
    /\ UNCHANGED <<src_file, tgt_file, args, locals, outcome, writes, tgt_at_call,
                   history, listed, harness>>

\* mutant: the write does not look at dry_run
WriteTarget_IgnoresDryRun ==
    /\ pc = "write"
    /\ changed
    /\ tgt_file' = File(new_text)
    /\ writes' = writes + 1
    /\ pc' = "return"
    /\ UNCHANGED <<src_file, args, locals, outcome, tgt_at_call, history, listed, harness>>

\* mutant: the write does not look at changed
WriteTarget_IgnoresChanged ==
    /\ pc = "write"
    /\ ~dry_run
    /\ tgt_file' = File(new_text)
    /\ writes' = writes + 1
    /\ pc' = "return"
    /\ UNCHANGED <<src_file, args, locals, outcome, tgt_at_call, history, listed, harness>>

\* lines 293-294, the condition holds
WriteTarget ==
    /\ pc = "write"
    /\ changed /\ ~dry_run
    /\ tgt_file' = File(new_text)
    /\ writes' = writes + 1
    /\ pc' = "return"
    /\ UNCHANGED <<src_file, args, locals, outcome, tgt_at_call, history, listed, harness>>

\* line 293, the condition fails
SkipWrite ==
    /\ pc = "write"
    /\ ~(changed /\ ~dry_run)
    /\ pc' = "return"
    /\ UNCHANGED <<src_file, tgt_file, args, locals, outcome, writes, tgt_at_call,
                   history, listed, harness>>

\* line 296
Return ==
    /\ pc = "return"
    /\ EndCall("ok", copied_groups)
    /\ UNCHANGED <<src_file, tgt_file, args, locals, writes, tgt_at_call, listed, harness>>

\* list_overlay_groups(source).  It reads the source file only, which no call
\* writes, so its result is the same at every point; it is explored once, after
\* the calls.
ListOverlayGroups ==
    /\ pc = "idle"
    /\ Len(history) = MaxRuns
    /\ listed.state = "unset"
    /\ src_file.exists
    /\ listed' =
         IF WellFormed(src_file.text)
         THEN LET cands == discover_candidate_groups(src_file.text)
              IN  [state |-> "ok", ids |-> [i \in DOMAIN cands |-> cands[i].group_id]]
         ELSE [state |-> "parse_error", ids |-> <<>>]
    /\ UNCHANGED <<src_file, tgt_file, args, pc, locals, outcome, writes, tgt_at_call,
                   history, harness>>

NoLocate == [phase |-> "off", text |-> <<>>, id |-> <<>>, res |-> NotFound]
NoMerge == [phase |-> "off", cls |-> "none", text |-> <<>>, id |-> <<>>, snippet |-> <<>>,
            first |-> Merged(<<>>, FALSE), second |-> Merged(<<>>, FALSE)]

IdleCopy ==
    /\ pc = "idle" /\ outcome = "none" /\ writes = 0 /\ history = <<>>
    /\ dry_run = FALSE
    /\ NoLocals
    /\ listed = [state |-> "unset", ids |-> <<>>]

Init ==
    /\ src_file \in SourceFiles
    /\ tgt_file \in TargetFiles
    /\ \E f \in Filters : include = f.include /\ exclude = f.exclude
    /\ tgt_at_call = tgt_file
    /\ IdleCopy
    /\ loc = NoLocate
    /\ mrg = NoMerge

Next ==
    \/ Call
    \/ CheckExists
    \/ ReadFiles
    \/ ParseSource
    \/ Discover
    \/ Filter
    \/ Collect
    \/ MergeDefinition
    \/ DefinitionsDone
    \/ MergeGroup
    \/ GroupsDone
    \/ WriteTarget
    \/ SkipWrite
    \/ Return
    \/ ListOverlayGroups

Spec == Init /\ [][Next]_vars

---------------------------------------------------------------------------
(* The span locator on its own: _extract_tag_block_with_pos applied to a   *)
(* document and an identifier carried by one of its <g ...> open tags      *)

ExistingTexts(files) == {f.text : f \in {g \in files : g.exists}}

LocateTexts == {t \in ExistingTexts(SourceFiles \cup TargetFiles) : WellFormed(t)}

OpenGroupIds(text) ==
    {IdOf(text[i]) : i \in {j \in DOMAIN text :
                              text[j].k = "open" /\ text[j].name = G /\ IdOf(text[j]) # <<>>}}

NoFiles ==
    /\ src_file = Missing /\ tgt_file = Missing /\ tgt_at_call = Missing
    /\ include = {} /\ exclude = {}
    /\ IdleCopy

InitLocate ==
    /\ NoFiles
    /\ mrg = NoMerge
    /\ \E t \in LocateTexts : \E x \in OpenGroupIds(t) :
          loc = [phase |-> "input", text |-> t, id |-> x, res |-> NotFound]

Locate ==
    /\ loc.phase = "input"
    /\ loc' = [loc EXCEPT !.phase = "done",
                          !.res = extract_tag_block_with_pos(loc.text, loc.id, G)]
    /\ UNCHANGED <<src_file, tgt_file, args, pc, locals, outcome, writes, tgt_at_call,
                   history, listed, mrg>>

NextLocate == Locate

SpecLocate == InitLocate /\ [][NextLocate]_vars

---------------------------------------------------------------------------
(* The merge engine on its own: a fragment the orchestrator can pass is    *)
(* merged into a target text, then merged again into the result            *)

\* the (identifier, snippet) pairs of group_snippets over the sources
GroupFragments ==
    UNION { {<<c.group_id, c.snippet>> : c \in Range(discover_candidate_groups(t))}
            : t \in {u \in ExistingTexts(SourceFiles) : WellFormed(u)} }

\* the (identifier, snippet) pairs of definition_snippets over the sources
DefinitionFragments ==
    UNION { LET cands == discover_candidate_groups(t)
            IN  {<<d.id, d.snippet>> : d \in Range(DefinitionsUpTo(t, cands, Len(cands)))}
            : t \in {u \in ExistingTexts(SourceFiles) : WellFormed(u)} }

\* the merge function of a fragment class
Merge(cls, dest, element_id, snippet) ==
    IF cls = "definition" THEN insert_or_replace_definition(dest, element_id, snippet)
    ELSE insert_or_replace_group(dest, element_id, snippet)

MergeInput(cls, text, frag) ==
    [phase |-> "input", cls |-> cls, text |-> text, id |-> frag[1], snippet |-> frag[2],
     first |-> Merged(<<>>, FALSE), second |-> Merged(<<>>, FALSE)]

InitMerge ==
    /\ NoFiles
    /\ loc = NoLocate
    /\ \E t \in ExistingTexts(TargetFiles) :
          \/ \E frag \in GroupFragments : mrg = MergeInput("group", t, frag)
          \/ \E frag \in DefinitionFragments : mrg = MergeInput("definition", t, frag)

\* the first application, to the target text
MergeOnce ==
    /\ mrg.phase = "input"
    /\ LET r == Merge(mrg.cls, mrg.text, mrg.id, mrg.snippet)
       IN  mrg' = [mrg EXCEPT !.phase = IF r.error = "none" THEN "once" ELSE "raised",
                              !.first = r]
    /\ UNCHANGED <<src_file, tgt_file, args, pc, locals, outcome, writes, tgt_at_call,
                   history, listed, loc>>

\* the same (identifier, snippet) applied to the text the first produced
MergeAgain ==
    /\ mrg.phase = "once"
    /\ mrg' = [mrg EXCEPT !.phase = "twice",
                          !.second = Merge(mrg.cls, mrg.first.text, mrg.id, mrg.snippet)]
    /\ UNCHANGED <<src_file, tgt_file, args, pc, locals, outcome, writes, tgt_at_call,
                   history, listed, loc>>

NextMerge == MergeOnce \/ MergeAgain

SpecMerge == InitMerge /\ [][NextMerge]_vars

---------------------------------------------------------------------------
(* Properties *)

\* the text holds a <g ...> tag carrying id="<id>"
HoldsGroupTag(text, id) ==
    \E i \in DOMAIN text : IsTag(text[i]) /\ text[i].name = G /\ HasIdToken(text[i], id)

\* the text holds a tag carrying id="<id>"
HoldsId(text, id) == \E i \in DOMAIN text : HasIdToken(text[i], id)

\* position of the close tag of the element opened at token i of a well-formed text
MatchingClose(text, i) ==
    Min({j \in (i + 1)..Len(text) :
            text[j].k = "close" /\ OpenDepth(text, j + 1) = OpenDepth(text, i)})

\* the candidates a call works on
CallCandidates ==
    FilterCandidates(discover_candidate_groups(src_file.text), include, exclude)

\* C1: idempotence.  When a non-dry-run copy_annotations(A, B) succeeds, the
\* next non-dry-run call with the same arguments returns an empty list and
\* leaves the target text as the first call left it.
C1_Idempotence ==
    \A i \in 1..(Len(history) - 1) :
        (~history[i].dry_run /\ ~history[i + 1].dry_run /\ history[i].outcome = "ok")
        => /\ history[i + 1].outcome = "ok"
           /\ history[i + 1].result = <<>>
           /\ history[i + 1].after = history[i].after

\* the scenario of C2 for a completed call h
C2_Scenario(h) ==
    /\ ~h.dry_run
    /\ src_file.exists /\ WellFormed(src_file.text)
    /\ Len(CallCandidates) = 1
    /\ CallCandidates[1].group_id = ANNOTATION_1
    /\ \E i \in DOMAIN src_file.text :
          /\ src_file.text[i].k = "open"
          /\ HasIdToken(src_file.text[i], ANNOTATION_1)
          /\ \E a \in DOMAIN src_file.text[i].attrs :
                src_file.text[i].attrs[a] = Attr("marker-end", "url", ARROW1)
    /\ \E j \in DOMAIN src_file.text :
          src_file.text[j].k = "self" /\ HasIdToken(src_file.text[j], ARROW1)
    /\ FindSeq(h.before, <<Close(DEFS_TAG)>>) # 0
    /\ FindSeq(h.before, GroupSlotMarker) # 0
    /\ ~HoldsId(h.before, ARROW1)
    /\ ~HoldsId(h.before, ANNOTATION_1)

\* C2: referenced definitions are transplanted with their group.  Source
\* group annotation_1 references marker-end="url(#arrow1)", arrow1 is a
\* self-closing tag of the source, the target has </defs> and the overlay slot
\* and holds neither: after the call the target holds a tag with id arrow1 and
\* the group annotation_1, and the call returned exactly [annotation_1].
C2_DefinitionTransplanted ==
    \A i \in DOMAIN history :
        C2_Scenario(history[i])
        => /\ history[i].outcome = "ok"
           /\ history[i].result = <<ANNOTATION_1>>
           /\ HoldsGroupTag(history[i].after, ANNOTATION_1)
           /\ HoldsId(history[i].after, ARROW1)

\* C3: dry-run purity.  A call with dry_run = TRUE never writes the target,
\* and the call repeated with dry_run = FALSE ends the same way and returns
\* the same list of group identifiers.
C3_DryRunPurity ==
    /\ (pc # "idle" /\ dry_run) => (writes = 0 /\ tgt_file = tgt_at_call)
    /\ \A i \in DOMAIN history :
          history[i].dry_run => history[i].after = history[i].before
    /\ \A i \in 1..(Len(history) - 1) :
          (history[i].dry_run /\ ~history[i + 1].dry_run)
          => /\ history[i + 1].outcome = history[i].outcome
             /\ history[i + 1].result = history[i].result

\* a dry run that reported groups, followed by the real run that wrote them
C3_Witness ==
    /\ Len(history) = 2
    /\ history[1].dry_run /\ history[1].result # <<>>
    /\ ~history[2].dry_run /\ history[2].after # history[2].before

\* C4: round-trip identifiers.  After a successful non-dry-run call without
\* filters, every identifier list_overlay_groups(source) returns is carried by
\* a <g> tag of the target text.
C4_RoundTrip ==
    listed.state = "ok"
    => \A i \in DOMAIN history :
          (history[i].outcome = "ok" /\ ~history[i].dry_run /\ include = {} /\ exclude = {})
          => \A k \in DOMAIN listed.ids : HoldsGroupTag(history[i].after, listed.ids[k])

\* span b lies inside span a
Inside(b, a) == b.start >= a.start /\ b.end <= a.end

\* C5: non-overlap of candidates.  The list _discover_candidate_groups
\* returns is ordered by start offset, no entry lies inside another entry, and
\* of the groups that qualify (raw_candidates) exactly those that lie inside
\* no other qualifying group survive.
C5_NonOverlap ==
    pc = "filter"
    => LET raw == RawCandidates(src_text)
       IN  /\ \A i, j \in DOMAIN candidates :
                 i < j => candidates[i].start <= candidates[j].start
           /\ \A i, j \in DOMAIN candidates :
                 i # j => ~Inside(candidates[i], candidates[j])
           /\ \A b \in Range(raw) :
                 b \in Range(candidates)
                 <=> ~\E a \in Range(raw) : a # b /\ Inside(b, a)

\* a qualifying group nested in a qualifying group was pruned
C5_Witness ==
    /\ pc = "filter"
    /\ Len(candidates) >= 1
    /\ \E b \in Range(RawCandidates(src_text)) :
          b \notin Range(candidates) /\ Inside(b, candidates[1])

\* C6: balanced extraction.  For a well-formed document and an identifier
\* carried by a <g ...> open tag of it, _extract_tag_block_with_pos returns
\* the span from that open tag to the close tag that matches it, which holds
\* as many <g open tags as </g> close tags.
C6_BalancedExtraction ==
    loc.phase = "done"
    => LET i == IdPos(loc.text, loc.id)
           s == loc.res.snippet
       IN  /\ loc.res.found
           /\ loc.res.start = i
           /\ s = SubSeq(loc.text, i, MatchingClose(loc.text, i))
           /\ Cardinality({m \in DOMAIN s : s[m].k = "open" /\ s[m].name = G})
              = Cardinality({m \in DOMAIN s : s[m].k = "close" /\ s[m].name = G})

\* the identifier names generated content
IsGeneratedId(id) ==
    id = FIGURE_1 \/ \E prefix \in MATPLOTLIB_PREFIXES : StartsWith(Lower(id), prefix)

\* C7: generated content is never a candidate.  No candidate and no
\* identifier list_overlay_groups returns is figure_1 or starts, ignoring
\* case, with a generated-content prefix, and no candidate has an ancestor
\* whose identifier does.
C7_NoGeneratedCandidate ==
    /\ \A k \in DOMAIN listed.ids : ~IsGeneratedId(listed.ids[k])
    /\ pc = "filter"
       => LET parent_map == ParentMap(src_text)
          IN  \A c \in DOMAIN candidates :
                 /\ ~IsGeneratedId(candidates[c].group_id)
                 /\ LET anc == Ancestors(parent_map, candidates[c].element)
                    IN  \A a \in DOMAIN anc : ~IsGeneratedId(IdOf(src_text[anc[a]]))

\* the source holds generated groups with attributes beyond the id, one of
\* them named in mixed case, and a group with attributes inside one of them;
\* discovery has run and kept a candidate
C7_Witness ==
    /\ pc = "filter"
    /\ candidates # <<>>
    /\ \E i \in DOMAIN src_text :
          /\ IsTag(src_text[i]) /\ src_text[i].name = G
          /\ IdOf(src_text[i]) = FIGURE_1 /\ Len(src_text[i].attrs) > 1
    /\ \E i, j \in DOMAIN src_text :
          /\ src_text[i].k = "open" /\ src_text[i].name = G
          /\ IdOf(src_text[i]) = TEXT_3 /\ Len(src_text[i].attrs) > 1
          /\ src_text[j].k = "open" /\ src_text[j].name = G
          /\ ParentMap(src_text)[j] = i
          /\ IdOf(src_text[j]) = ANNOTATION_1 /\ Len(src_text[j].attrs) > 1

\* C8: the changed flag of the merge engine.  For both fragment classes the
\* flag is true only if the returned text differs from the input, and the
\* same fragment applied again to the text produced returns that text with
\* changed = false.
C8_ChangedFlag ==
    /\ mrg.phase \in {"once", "twice"}
       => (mrg.first.changed => mrg.first.text # mrg.text)
    /\ mrg.phase = "twice"
       => /\ mrg.second.changed => mrg.second.text # mrg.first.text
          /\ mrg.second.error = "none"
          /\ mrg.second.text = mrg.first.text
          /\ ~mrg.second.changed

\* the scenario of C9 for a completed call h: one candidate, no definition
\* to transplant, and the target holds, from token p on, a group with the
\* candidate's identifier and other content
C9_Scenario(h, p) ==
    /\ ~h.dry_run
    /\ h.before[p].k = "open" /\ h.before[p].name = G /\ IdOf(h.before[p]) # <<>>
    /\ src_file.exists /\ WellFormed(src_file.text)
    /\ WellFormed(h.before)
    /\ Len(CallCandidates) = 1
    /\ HasIdToken(h.before[p], CallCandidates[1].group_id)
    /\ DefinitionsUpTo(src_file.text, CallCandidates, 1) = <<>>
    /\ SubSeq(h.before, p, MatchingClose(h.before, p)) # CallCandidates[1].snippet

\* C9: stale group replacement.  When the target holds a group with the
\* identifier of the source candidate and other content, the call replaces
\* the whole group by the source snippet, leaves the text before and after it
\* unchanged and returns the identifier; the next identical call returns an
\* empty list.
C9_StaleReplaced ==
    \A i \in DOMAIN history : \A p \in DOMAIN history[i].before :
        C9_Scenario(history[i], p)
        => LET h == history[i]
               q == MatchingClose(h.before, p)
           IN  /\ h.outcome = "ok"
               /\ h.result = <<CallCandidates[1].group_id>>
               /\ h.after = SubSeq(h.before, 1, p - 1) \o CallCandidates[1].snippet
                            \o SubSeq(h.before, q + 1, Len(h.before))
               /\ (i < Len(history) /\ ~history[i + 1].dry_run)
                  => history[i + 1].outcome = "ok" /\ history[i + 1].result = <<>>

\* C10: single guarded write.  A call writes the target at most once; the
\* write happens only after both merge loops have run to their end, with
\* dry_run false and a change reported; a call that ends in an AnnotationError
\* leaves the target file as it was when the call started.
C10_SingleGuardedWrite ==
    [][ /\ writes' <= 1
        /\ (tgt_file' # tgt_file \/ writes' > writes)
           => /\ pc = "write" /\ ~dry_run /\ changed
              /\ def_i > Len(definition_snippets)
              /\ grp_i > Len(group_snippets)
              /\ writes = 0 /\ writes' = 1
        /\ (Len(history') > Len(history) /\ outcome' # "ok")
           => tgt_file' = tgt_at_call
      ]_vars

\* a call has written the target after merging a definition and groups
C10_Witness ==
    /\ pc = "return" /\ writes = 1
    /\ definition_snippets # <<>>
    /\ Len(group_snippets) = 2
    /\ tgt_file # tgt_at_call

====
